---- MODULE Spec2Model ----
(***************************************************************************)
(* odsfzf: the recursive open-directory crawler (iterate_file_system) and  *)
(* the aggregator that feeds the picker (send_fs_to_fzf).                  *)
(*                                                                         *)
(* Strings are sequences of tokens.  A token is a run of characters that   *)
(* the code never looks inside: the separator "/", a dot segment ".", "..",*)
(* a scheme-and-host prefix "http://h", or a name.  No name of the model   *)
(* contains "/", starts with "." or has "Subs"/"Sub" as a proper suffix,   *)
(* so prefix/suffix tests on tokens agree with the tests on characters.    *)
(***************************************************************************)
EXTENDS Integers, Sequences, FiniteSets, TLC

VARIABLES
    call,       \* crawler: the arguments of the outermost iterate_file_system
    stack,      \* crawler: the chain of live iterate_file_system generators
    served,     \* the site: URL -> response, fixed at the first fetch of a URL
    fetched,    \* crawler: the URLs given to session.get, in order
    out,        \* crawler: the records the consumer has pulled so far
    pulling,    \* crawler: TRUE while a next() of the consumer is running
    cstatus,    \* crawler: "ready", "done", "ValueError" or "ConnectionError"
    show_path,  \* aggregator: the show_path argument of send_fs_to_fzf
    consumed,   \* aggregator: the records taken from genexp so far, with the
                \*   directory each one comes from
    agg,        \* aggregator: subtitle_holder, resolution_holder, what
                \*   to_fzf_prompt has yielded, and whether it has raised
    phase,      \* aggregator: "streaming", "drained", "returned", "AttributeError"
    picked,     \* aggregator: <<file_ref>> once the picker has returned
    resolutions, \* aggregator: the list send_fs_to_fzf returns
    attributes_in, \* naming: the attributes of the file that is being named
    name_out,   \* naming: <<file["name"]>> once lines 152-192 have run
    number_in,  \* naming: a float, in halves, given to get_pseudo_float_string
    text_out    \* naming: <<the string returned for number_in>>

crawlVars == <<call, stack, served, fetched, out, pulling, cstatus>>
aggVars == <<show_path, consumed, agg, phase, picked, resolutions>>
nameVars == <<attributes_in, name_out, number_in, text_out>>
vars == <<crawlVars, aggVars, nameVars>>

----------------------------------------------------------------------------
(* Bounds *)

\* The crawl is followed for MaxFetch calls of session.get and to MaxDepth
\* nested generators (a cyclic site makes both unbounded); the aggregator
\* takes streams of up to MaxStream records.
MaxFetch == 4
MaxDepth == 3
MaxStream == 3

\* get_pseudo_float_string is applied to the floats 0, 0.5, ... MaxHalves / 2
MaxHalves == 24

----------------------------------------------------------------------------
(* Strings *)

SLASH == "/"
HOST == "http://h"
None == <<"None">>

Last(s) == s[Len(s)]
Front(s) == SubSeq(s, 1, Len(s) - 1)

\* str.endswith
EndsWith(s, suffix) ==
    /\ Len(s) >= Len(suffix)
    /\ SubSeq(s, Len(s) - Len(suffix) + 1, Len(s)) = suffix

\* str.removesuffix("/")
RemoveSuffixSlash(s) == IF Len(s) > 0 /\ Last(s) = SLASH THEN Front(s) ELSE s

\* str.removeprefix("/")
RemovePrefixSlash(s) == IF Len(s) > 0 /\ s[1] = SLASH THEN Tail(s) ELSE s

\* the index of the last "/" of s, 0 when there is none
LastSlash(s) ==
    LET idx == {i \in 1..Len(s) : s[i] = SLASH}
    IN  IF idx = {} THEN 0 ELSE CHOOSE i \in idx : \A j \in idx : j <= i

\* s.rsplit("/", 1)[-1]
RSplitLast(s) == SubSeq(s, LastSlash(s) + 1, Len(s))

safe_url_join(url, path) ==
    RemoveSuffixSlash(url) \o <<SLASH>> \o RemovePrefixSlash(path)

----------------------------------------------------------------------------
(* yarl.URL, on token strings *)

\* url.host is set
HasHost(u) == Len(u) > 0 /\ u[1] = HOST

\* url.path: the path of an absolute URL is never empty
UrlPath(u) ==
    IF HasHost(u) THEN (IF Len(u) = 1 THEN <<SLASH>> ELSE Tail(u)) ELSE u

\* url.human_repr()
human_repr(u) == IF HasHost(u) THEN <<HOST>> \o UrlPath(u) ELSE u

\* url.parent: the path cut before its last "/"
UrlParent(u) ==
    LET p == UrlPath(u)
        cut == SubSeq(p, 1, LastSlash(p) - 1)
    IN  IF p = <<>> \/ p = <<SLASH>> THEN u
        ELSE IF HasHost(u) THEN <<HOST>> \o cut ELSE cut

\* URL.__eq__: an absolute URL with an empty path equals the one with path "/"
UrlEq(a, b) == human_repr(a) = human_repr(b)

\* url.join(yarl.URL(href)): RFC 3986 reference resolution against an absolute
\* base (hrefs of the model hold no inner dot segments, so none is removed)
UrlJoin(base, href) ==
    LET bp == UrlPath(base)
    IN  IF HasHost(href) THEN human_repr(href)
        ELSE IF href[1] = SLASH THEN <<HOST>> \o href
        ELSE <<HOST>> \o SubSeq(bp, 1, LastSlash(bp)) \o href

----------------------------------------------------------------------------
(* Link extraction *)

DotSegments == {".", ".."}

\* URL_SCANNER_RE, group is_dir: the child is at least one character followed
\* by a final "/"
IsDir(href) == Len(href) > 1 /\ Last(href) = SLASH

\* A variant of RELATIVE_TO_CURRENT_URL_RE that knows "../" only
ParentSegmentOnly(href) ==
    Len(href) >= 2 /\ href[1] = ".." /\ href[2] = SLASH

\* RELATIVE_TO_CURRENT_URL_RE.match(href): a prefix match of "dots then /"
RelativeToCurrent(href) ==
    Len(href) >= 2 /\ href[1] \in DotSegments /\ href[2] = SLASH

SubtitlePaths == {<<"Subs", SLASH>>, <<"Sub", SLASH>>}

\* is_subtitle_path, computed for a url without host only
IsSubtitlePath(url) ==
    ~HasHost(url) /\ \E sp \in SubtitlePaths : EndsWith(UrlPath(url), sp)

----------------------------------------------------------------------------
(* The site: index pages as the hrefs URL_SCANNER_RE finds in them, in order *)

FileHref == <<"ep.mkv">>
DirHref == <<"S1", SLASH>>
SubsHref == <<"Subs", SLASH>>
HereHref == <<".", SLASH>>
UpHref == <<"..", SLASH>>
UpUpHref == <<"..", SLASH, "..", SLASH>>
AbsParentHref == <<SLASH, "Show", SLASH>>
FullParentHref == <<HOST, SLASH, "Show", SLASH>>
DotFileHref == <<".", SLASH, "ep.mkv">>
SlashHref == <<SLASH>>

PageSet ==
    { <<>>,
      <<FileHref>>,
      <<UpHref, FileHref>>,
      <<HereHref, UpUpHref>>,
      <<DirHref, FileHref>>,
      <<SubsHref, FileHref>>,
      <<AbsParentHref>>,
      <<FullParentHref>>,
      <<FileHref, DirHref>>,
      <<DirHref, SubsHref>>,
      <<DotFileHref, SlashHref>> }

\* The bodies of the error pages of the site: a page without links, and one
\* with a link
ErrorPageSet == { <<>>, <<FileHref>> }

\* What session.get can produce: a response whose body is a page (status 200,
\* or an error status such as 404 or 500 whose body is a page as well), or a
\* transport failure, which raises.
Responses ==
    [kind : {"ok"}, body : PageSet]
        \cup [kind : {"error_status"}, body : ErrorPageSet]
        \cup {[kind |-> "failure", body |-> <<>>]}

\* The calls of iterate_file_system(session, url, parent=...) by a caller
RootCalls ==
    { [url |-> <<HOST, SLASH, "Show", SLASH>>, parent |-> None],
      [url |-> <<HOST, SLASH, "Show">>, parent |-> None],
      [url |-> <<"Show", SLASH>>, parent |-> None],
      [url |-> <<SLASH, "Show", SLASH>>, parent |-> None],
      [url |-> <<"Show", SLASH>>, parent |-> <<HOST, SLASH>>],
      [url |-> <<"Show">>, parent |-> <<"Show", SLASH, "S1">>] }

\* File names.  anitopy.parse is an external library: the table gives, for
\* each file name of the model, the keys it returns (None: the key is absent).
F1080 == <<"Show.01.1080p.mkv">>
F720 == <<"Show.01.720p.mkv">>
FPlain == <<"Show.01.mkv">>
FPattern == <<"Show%20S01E02.mkv">>
FBare == <<"Show">>
FSrt == <<"eng.srt">>

Attributes(file_name, anime_title, episode_number, anime_season, video_resolution, file_extension) ==
    [file_name |-> file_name, anime_title |-> anime_title,
     episode_number |-> episode_number, anime_season |-> anime_season,
     video_resolution |-> video_resolution, file_extension |-> file_extension]

anitopy_parse(href) ==
    CASE href = F1080 ->
            Attributes(<<"Show", ".", "01", ".", "1080p">>, <<"Show">>, <<"01">>,
                       None, <<"1080p">>, <<"mkv">>)
      [] href = F720 ->
            Attributes(<<"Show", ".", "01", ".", "720p">>, <<"Show">>, <<"01">>,
                       None, <<"720p">>, <<"mkv">>)
      [] href = FPlain ->
            Attributes(<<"Show", ".", "01">>, <<"Show">>, <<"01">>, None, None, <<"mkv">>)
      [] href = FPattern ->
            Attributes(<<"Show", "%20", "S01E02">>, None, None, None, None, <<"mkv">>)
      [] href = FSrt ->
            Attributes(<<"eng">>, None, None, None, None, <<"srt">>)
      [] href = FileHref ->
            Attributes(<<"ep">>, None, None, None, None, <<"mkv">>)
      [] OTHER ->
            Attributes(href, None, None, None, None, None)

\* key in attributes
Has(attributes, key) == attributes[key] # None

----------------------------------------------------------------------------
(* Name canonicalisation *)

\* Numbers are counted in halves: the float 5.5 is 11
HalvesOf(text) ==
    CASE text = <<"1">> -> 2
      [] text = <<"01">> -> 2
      [] text = <<"02">> -> 4
      [] text = <<"5.5">> -> 11
      [] text = <<"00">> -> 0

\* The spans SEASON_LISTING matches, as tokens, with their groups
SeasonListings == {"S01E02", "1x02"}
SeasonGroup(token) ==
    CASE token = "S01E02" -> <<"01">>
      [] token = "1x02" -> <<"1">>
EpisodeGroup(token) ==
    CASE token = "S01E02" -> <<"02">>
      [] token = "1x02" -> <<"02">>

Separators == {".", " "}

\* SEASON_LISTING matches the token at i: not at the start of the name, and
\* bounded on both sides by a word boundary or dots
ListingAt(name, i) ==
    /\ i > 1
    /\ name[i] \in SeasonListings
    /\ name[i-1] \in Separators
    /\ i < Len(name) => name[i+1] \in Separators

\* The match that ends with the token at i starts at the run of dots before
\* it, a dot that opens the name excepted
MatchStart(name, i) ==
    LET starts == {j \in 2..i : \A k \in j..(i-1) : name[k] = "."}
    IN  CHOOSE j \in starts : \A k \in starts : j <= k

RECURSIVE Keep(_, _, _)
\* s without the positions of drop, scanned from position i
Keep(s, drop, i) ==
    IF i > Len(s) THEN <<>>
    ELSE (IF i \in drop THEN <<>> ELSE <<s[i]>>) \o Keep(s, drop, i + 1)

RECURSIVE LStrip(_, _)
LStrip(s, chars) ==
    IF s # <<>> /\ Head(s) \in chars THEN LStrip(Tail(s), chars) ELSE s

RECURSIVE RStrip(_, _)
RStrip(s, chars) ==
    IF s # <<>> /\ Last(s) \in chars THEN RStrip(Front(s), chars) ELSE s

\* str.strip(chars)
Strip(s, chars) == RStrip(LStrip(s, chars), chars)

\* str.replace(".", " ")
DotsToSpaces(s) == [i \in 1..Len(s) |-> IF s[i] = "." THEN " " ELSE s[i]]

\* urllib.parse.unquote
unquote(s) == [i \in 1..Len(s) |-> IF s[i] = "%20" THEN " " ELSE s[i]]

\* Lines 53-62: <<name, season, episode>>
get_season_listing_from_name(name) ==
    LET hits == {i \in 1..Len(name) : ListingAt(name, i)}
        first == CHOOSE i \in hits : \A j \in hits : i <= j
        drop == UNION {MatchStart(name, i)..i : i \in hits}
    IN  IF hits = {} THEN <<name, None, None>>
        ELSE <<Strip(Keep(name, drop, 1), {" "}),
               SeasonGroup(name[first]), EpisodeGroup(name[first])>>

\* format(n, "02d")
Pad2(n) == IF n < 10 THEN "0" \o ToString(n) ELSE ToString(n)

\* A float that is absent (None)
NoNumber == -1

\* round() of a number of halves that is not whole: to the even neighbour
RoundHalfEven(h) ==
    LET floor == (h - 1) \div 2
    IN  IF floor % 2 = 0 THEN floor ELSE floor + 1

\* get_pseudo_float_string with int() in place of the "02.0f" format
TruncatedFloatString(string_source) == Pad2(string_source \div 2)

\* Lines 65-66, on a number of halves: "02d" of a whole number, "02.0f" of
\* the others
get_pseudo_float_string(string_source) ==
    IF string_source % 2 = 0
    THEN Pad2(string_source \div 2)
    ELSE Pad2(RoundHalfEven(string_source))

\* Lines 179-188 with "if pseudo_episode:" in place of the test for None
SeasonListingZeroIsNone(pseudo_season, pseudo_episode) ==
    LET episode_text == get_pseudo_float_string(pseudo_episode)
        season_text == get_pseudo_float_string(pseudo_season)
        no_episode == pseudo_episode = NoNumber \/ pseudo_episode = 0
    IN  IF pseudo_season = NoNumber
        THEN (IF no_episode THEN <<>> ELSE <<episode_text>>)
        ELSE IF no_episode
             THEN <<season_text \o "x0?">>
             ELSE <<season_text \o "x" \o episode_text>>

\* Lines 179-188: season_listing, <<>> when it stays None
SeasonListing(pseudo_season, pseudo_episode) ==
    LET episode_text == get_pseudo_float_string(pseudo_episode)
        season_text == get_pseudo_float_string(pseudo_season)
    IN  IF pseudo_season = NoNumber
        THEN (IF pseudo_episode = NoNumber THEN <<>> ELSE <<episode_text>>)
        ELSE IF pseudo_episode = NoNumber
             THEN <<season_text \o "x0?">>
             ELSE <<season_text \o "x" \o episode_text>>

\* Lines 152-192: file["name"]
CanonicalName(attributes) ==
    LET name0 == unquote(IF Has(attributes, "anime_title")
                         THEN attributes.anime_title
                         ELSE attributes.file_name)
        listing == get_season_listing_from_name(name0)
        pseudo_name == listing[1]
        pseudo_season ==
            IF Has(attributes, "anime_season")
            THEN HalvesOf(attributes.anime_season)
            ELSE IF listing[2] = None THEN NoNumber ELSE HalvesOf(listing[2])
        pseudo_episode ==
            IF Has(attributes, "episode_number")
            THEN HalvesOf(attributes.episode_number)
            ELSE IF listing[3] = None THEN NoNumber ELSE HalvesOf(listing[3])
        name == IF Has(attributes, "episode_number")
                   /\ Has(attributes, "anime_season")
                THEN name0 ELSE pseudo_name
        season_listing == SeasonListing(pseudo_season, pseudo_episode)
    IN  Strip(DotsToSpaces(Strip(name, {".", " "})) \o <<" ">> \o season_listing,
              {".", " "})

----------------------------------------------------------------------------
(* The state of send_fs_to_fzf *)

EmptyHolder == <<>>

NewAggregator ==
    [subtitle_holder |-> EmptyHolder, resolution_holder |-> EmptyHolder,
     emitted |-> <<>>, raised |-> FALSE]

\* The aggregator before send_fs_to_fzf is called
AggIdle ==
    /\ show_path = FALSE
    /\ consumed = <<>>
    /\ agg = NewAggregator
    /\ phase = "streaming"
    /\ picked = <<>>
    /\ resolutions = <<>>

\* The naming code before it is given a file
NameIdle ==
    /\ attributes_in = anitopy_parse(FBare)
    /\ name_out = <<>>
    /\ number_in = 0
    /\ text_out = <<>>

----------------------------------------------------------------------------
(* iterate_file_system *)

\* A generator object: its arguments, and once its body has started the
\* resolved url, the page it iterates and the position in it.  collect says
\* that the caller consumes it by list(iterator), acc what list() has so far.
NewFrame(url, parent, collect) ==
    [url |-> url, parent |-> parent, started |-> FALSE, resolved |-> <<>>,
     is_subtitle_path |-> FALSE, page |-> <<>>, pos |-> 1,
     collect |-> collect, acc |-> <<>>]

\* A variant of lines 77-92 without the test of line 84: the relative url is
\* fetched as it is
PrologueWithoutParentTest(url, parent) ==
    IF HasHost(url) \/ parent = None
    THEN [do |-> "get", url |-> url, is_subtitle_path |-> FALSE]
    ELSE [do |-> "get",
          url |-> safe_url_join(human_repr(parent), human_repr(url)),
          is_subtitle_path |-> IsSubtitlePath(url)]

\* Lines 77-92: what the body does before the fetch
\*   "raise"  ValueError("parent is required for relative URLs")
\*   "return" the generator ends without a record
\*   "get"    session.get(url.human_repr())
Prologue(url, parent) ==
    IF HasHost(url)
    THEN [do |-> "get", url |-> url, is_subtitle_path |-> FALSE]
    ELSE IF parent = None
         THEN [do |-> "raise", url |-> url,
               is_subtitle_path |-> IsSubtitlePath(url)]
         ELSE IF UrlEq(UrlParent(parent), url)
              THEN [do |-> "return", url |-> url,
                    is_subtitle_path |-> IsSubtitlePath(url)]
              ELSE [do |-> "get",
                    url |-> safe_url_join(human_repr(parent), human_repr(url)),
                    is_subtitle_path |-> IsSubtitlePath(url)]

Top == stack[Len(stack)]
Running == pulling /\ cstatus = "ready" /\ Len(stack) > 0

\* The file record of lines 120-126 (percent-escapes are kept as written in
\* url and path, which nothing compares)
FileRecord(url, href) ==
    [type |-> "file", attrs |-> anitopy_parse(href), origin |-> href,
     url |-> human_repr(UrlJoin(url, href)), path |-> UrlPath(UrlJoin(url, href))]

\* The subtitle record of lines 110-116
SubtitleRecord(parent, subtitles) ==
    [type |-> "subtitle",
     attrs |-> [subtitle_for |-> RSplitLast(parent), subtitles |-> subtitles]]

\* The innermost generator of st that a list(...) consumes, 0 when none
Collector(st) ==
    LET idx == {i \in 1..Len(st) : st[i].collect}
    IN  IF idx = {} THEN 0 ELSE CHOOSE i \in idx : \A j \in idx : j <= i

\* A yield that hands the record over and goes on running, as a crawler that
\* works ahead of its consumer would
YieldAndRunOn(st, rec) ==
    LET c == Collector(st)
    IN  /\ stack' = IF c = 0 THEN st ELSE [st EXCEPT ![c].acc = Append(@, rec)]
        /\ out' = IF c = 0 THEN Append(out, rec) ELSE out
        /\ pulling' = TRUE

\* A record yielded by the top generator of st travels up the yield-from chain:
\* it ends in the list() that consumes an enclosing generator, or at the
\* consumer, whose next() then returns.
Yield(st, rec) ==
    LET c == Collector(st)
    IN  IF c = 0
        THEN /\ stack' = st
             /\ out' = Append(out, rec)
             /\ pulling' = FALSE
        ELSE /\ stack' = [st EXCEPT ![c].acc = Append(@, rec)]
             /\ out' = out
             /\ pulling' = TRUE

Advance(st) == [st EXCEPT ![Len(st)].pos = @ + 1]

\* The top generator ends: StopIteration reaches its caller, which yields the
\* subtitle record when it was collecting (line 110), else goes on (line 118).
Finish ==
    LET done == Top
        st == Front(stack)
    IN  IF st = <<>>
        THEN /\ stack' = st
             /\ cstatus' = "done"
             /\ pulling' = FALSE
             /\ out' = out
        ELSE /\ cstatus' = cstatus
             /\ IF done.collect
                THEN Yield(Advance(st),
                           SubtitleRecord(st[Len(st)].parent, done.acc))
                ELSE /\ stack' = Advance(st)
                     /\ out' = out
                     /\ pulling' = pulling

\* The consumer asks for the next record
Pull ==
    /\ UNCHANGED <<call, aggVars, nameVars>>
    /\ cstatus = "ready"
    /\ ~pulling
    /\ pulling' = TRUE
    /\ UNCHANGED <<stack, served, fetched, out, cstatus>>

\* Line 85: a url without host and no parent
EnterRaise ==
    /\ UNCHANGED <<call, aggVars, nameVars>>
    /\ Running
    /\ ~Top.started
    /\ Prologue(Top.url, Top.parent).do = "raise"
    /\ cstatus' = "ValueError"
    /\ pulling' = FALSE
    /\ stack' = <<>>
    /\ UNCHANGED <<served, fetched, out>>

\* The response of the site to a fetch of u
Answers(u) == IF u \in DOMAIN served THEN {served[u]} ELSE Responses

\* Lines 89-94 with a response: the cycle guard returns, or the page is
\* fetched and its body becomes the lines to scan, whatever the status
EnterGet ==
    /\ UNCHANGED <<call, aggVars, nameVars>>
    /\ Running
    /\ ~Top.started
    /\ LET pro == Prologue(Top.url, Top.parent)
       IN  \/ /\ pro.do = "return"
              /\ Finish
              /\ UNCHANGED <<served, fetched>>
           \/ /\ pro.do = "get"
              /\ Len(fetched) < MaxFetch
              /\ \E r \in Answers(human_repr(pro.url)) :
                    /\ r.kind # "failure"
                    /\ served' = (human_repr(pro.url) :> r) @@ served
                    /\ fetched' = Append(fetched, human_repr(pro.url))
                    /\ stack' = [stack EXCEPT ![Len(stack)] =
                            [@ EXCEPT !.started = TRUE,
                                      !.resolved = pro.url,
                                      !.is_subtitle_path = pro.is_subtitle_path,
                                      !.page = r.body]]
                    /\ UNCHANGED <<out, pulling, cstatus>>

\* Line 94 when the transport fails: session.get raises, and the exception
\* leaves every generator of the chain
EnterGetFails ==
    /\ UNCHANGED <<call, aggVars, nameVars>>
    /\ Running
    /\ ~Top.started
    /\ LET pro == Prologue(Top.url, Top.parent)
       IN  /\ pro.do = "get"
           /\ Len(fetched) < MaxFetch
           /\ \E r \in Answers(human_repr(pro.url)) :
                 /\ r.kind = "failure"
                 /\ served' = (human_repr(pro.url) :> r) @@ served
                 /\ fetched' = Append(fetched, human_repr(pro.url))
    /\ cstatus' = "ConnectionError"
    /\ pulling' = FALSE
    /\ stack' = <<>>
    /\ out' = out

InLoop == Running /\ Top.started /\ Top.pos <= Len(Top.page)

\* Lines 102-103
SkipLink ==
    /\ UNCHANGED <<call, aggVars, nameVars>>
    /\ InLoop
    /\ RelativeToCurrent(Top.page[Top.pos])
    /\ stack' = Advance(stack)
    /\ UNCHANGED <<served, fetched, out, pulling, cstatus>>

\* Lines 105-118: a directory link; the new generator is iterated at once, by
\* list(iterator) under a subtitle path and by yield from otherwise
Descend ==
    /\ UNCHANGED <<call, aggVars, nameVars>>
    /\ InLoop
    /\ ~RelativeToCurrent(Top.page[Top.pos])
    /\ IsDir(Top.page[Top.pos])
    /\ Len(stack) < MaxDepth
    /\ stack' = Append(stack, NewFrame(Top.page[Top.pos],
                                       human_repr(Top.resolved),
                                       Top.is_subtitle_path))
    /\ UNCHANGED <<served, fetched, out, pulling, cstatus>>

\* Lines 119-126
YieldFile ==
    /\ UNCHANGED <<call, aggVars, nameVars>>
    /\ InLoop
    /\ ~RelativeToCurrent(Top.page[Top.pos])
    /\ ~IsDir(Top.page[Top.pos])
    /\ Yield(Advance(stack), FileRecord(Top.resolved, Top.page[Top.pos]))
    /\ UNCHANGED <<served, fetched, cstatus>>

\* The page is exhausted: the with block closes and the generator ends
EndOfPage ==
    /\ UNCHANGED <<call, aggVars, nameVars>>
    /\ Running
    /\ Top.started
    /\ Top.pos > Len(Top.page)
    /\ Finish
    /\ UNCHANGED <<served, fetched>>

CrawlInit ==
    /\ call \in RootCalls
    /\ stack = <<NewFrame(call.url, call.parent, FALSE)>>
    /\ served = <<>>
    /\ fetched = <<>>
    /\ out = <<>>
    /\ pulling = FALSE
    /\ cstatus = "ready"
    /\ AggIdle
    /\ NameIdle

CrawlNext ==
    \/ Pull
    \/ EnterRaise
    \/ EnterGet
    \/ EnterGetFails
    \/ SkipLink
    \/ Descend
    \/ YieldFile
    \/ EndOfPage

SpecCrawl == CrawlInit /\ [][CrawlNext]_vars

----------------------------------------------------------------------------
(* Properties of the crawler *)

RECURSIVE FilesOf(_)
\* The file records of a sequence of records, those inside subtitle records
\* included
FilesOf(recs) ==
    IF recs = <<>> THEN {}
    ELSE LET r == Head(recs)
         IN  (IF r.type = "file" THEN {r} ELSE FilesOf(r.attrs.subtitles))
                 \cup FilesOf(Tail(recs))

\* Every file record produced so far, yielded outwards or held by a list()
ProducedFiles ==
    FilesOf(out) \cup UNION {FilesOf(stack[i].acc) : i \in 1..Len(stack)}

\* An href made of "./" and "../" segments only
NavOnly(href) ==
    /\ Len(href) >= 2
    /\ Len(href) % 2 = 0
    /\ \A i \in 1..Len(href) :
          IF i % 2 = 1 THEN href[i] \in DotSegments ELSE href[i] = SLASH

\* The directory that lists the directory page u ("http://h/Show/S1/" is
\* listed by "http://h/Show/")
ListingDir(u) == UrlParent(UrlParent(human_repr(u))) \o <<SLASH>>

\* href, found in the page at listing, denotes the parent directory of that
\* page: as a relative href, an absolute path or a full URL
BackLink(href, listing) ==
    /\ Len(UrlPath(listing)) > 1
    /\ IsDir(human_repr(listing))
    /\ \/ href = UpHref
       \/ /\ ~NavOnly(href)
          /\ IsDir(href)
          /\ UrlJoin(listing, href) = ListingDir(listing)

\* C5: a link from a directory page back to its own parent directory yields no
\* record and is not crawled: no generator made for such a link ever fetches.
C5_CycleGuard ==
    \A i \in 2..Len(stack) :
        (stack[i-1].started /\ BackLink(stack[i].url, stack[i-1].resolved))
            => ~stack[i].started

\* C6: an href made only of "../" and "./" segments causes no recursive call,
\* no fetch and no record.
C6_NavLinksSkipped ==
    /\ \A i \in 2..Len(stack) : ~NavOnly(stack[i].url)
    /\ \A i \in 1..Len(fetched) :
          \A k \in 1..Len(fetched[i]) : fetched[i][k] \notin DotSegments
    /\ \A r \in ProducedFiles : ~NavOnly(r.origin)

\* A page with a navigation href has been scanned past that href
C6_Witness ==
    \E i \in 1..Len(stack) :
        /\ stack[i].started
        /\ \E k \in 1..Len(stack[i].page) :
              NavOnly(stack[i].page[k]) /\ k < stack[i].pos

\* C7: a call with a url without host and without parent ends in ValueError at
\* the first pull, with nothing fetched and nothing yielded.
C7_RelativeRootRaises ==
    (~HasHost(call.url) /\ call.parent = None) =>
        /\ fetched = <<>>
        /\ out = <<>>
        /\ cstatus \in {"ready", "ValueError"}
        /\ cstatus = "ready" => (Len(stack) = 1 /\ ~Top.started)

C7_Witness ==
    ~HasHost(call.url) /\ call.parent = None /\ cstatus = "ValueError"

\* C8: every failed retrieval, a transport failure or an error status,
\* ends the crawl with an error, and the body of the failed response is not
\* scanned for records.
C8_FetchFailurePropagates ==
    \A i \in 1..Len(fetched) :
        served[fetched[i]].kind # "ok" =>
            /\ cstatus \notin {"ready", "done"}
            /\ \A j \in 1..Len(fetched) : j # i => fetched[j] # fetched[i]

\* The records yielded to the consumer that are files
YieldedFiles == {i \in 1..Len(out) : out[i].type = "file"}
YieldedBundles == {i \in 1..Len(out) : out[i].type = "subtitle"}

\* A path below a subtitle folder
UnderSubtitleFolder(path) ==
    \E i \in 1..(Len(path) - 1) : SubSeq(path, i, i + 1) \in SubtitlePaths

\* C12: a file found under a subtitle folder, listed by the folder's page or
\* by a page below it, is never yielded as a record of its own: it is found
\* in the subtitles of a subtitle record only.
C12_SubtitleFilesBundled ==
    \A i \in YieldedFiles : ~UnderSubtitleFolder(out[i].path)

\* The top generator has just yielded the subtitle record of the directory
\* link before its position to the consumer
BundleJustYielded ==
    /\ cstatus = "ready"
    /\ ~pulling
    /\ Len(stack) > 0
    /\ Top.started
    /\ Top.is_subtitle_path
    /\ Collector(stack) = 0
    /\ Top.pos > 1
    /\ IsDir(Top.page[Top.pos - 1])
    /\ ~RelativeToCurrent(Top.page[Top.pos - 1])

\* The name of the directory at u, with or without a final "/"
DirectoryName(u) == RSplitLast(RemoveSuffixSlash(u))

\* C13: the subtitle_for of a subtitle record is the name of the directory
\* that holds the subtitle folder, also when the url of that directory ends
\* with "/".
C13_SubtitleForNamesParent ==
    BundleJustYielded =>
        /\ Last(out).type = "subtitle"
        /\ Last(out).attrs.subtitle_for = DirectoryName(Top.parent)

\* The pages fetched for a subtitle folder
SubtitleVisits ==
    {i \in 1..Len(fetched) :
        \E sp \in SubtitlePaths : EndsWith(fetched[i], sp)}

\* C14: a visit of a subtitle folder yields exactly one subtitle record,
\* whatever its page lists: files only, one subdirectory or several.
C14_OneBundlePerVisit ==
    (cstatus = "done" /\ Cardinality(SubtitleVisits) = 1) =>
        Cardinality(YieldedBundles) = 1

\* The hrefs the generators on the stack have scanned past
ScannedHrefs ==
    UNION {{stack[i].page[k] : k \in 1..(stack[i].pos - 1)} : i \in 1..Len(stack)}

\* C18: only an href made entirely of "../" and "./" segments is dropped.
\* Every other href is a child: one that does not end with "/" ("./ep.mkv"
\* too) gives a file record, and one that ends with "/" (the href "/" too)
\* is a directory, never a file.
C18_OnlyNavLinksDropped ==
    /\ \A href \in ScannedHrefs :
          (~NavOnly(href) /\ Last(href) # SLASH) =>
              \E r \in ProducedFiles : r.origin = href
    /\ \A r \in ProducedFiles : Last(r.origin) # SLASH

\* The fetched pages that list href
ListedBy(href) ==
    {i \in 1..Len(fetched) :
        \E k \in 1..Len(served[fetched[i]].body) : served[fetched[i]].body[k] = href}

\* C20: the url of a file record is the url of the page that lists it followed
\* by the href, the way the url of a subdirectory is made (safe_url_join),
\* whether the root url ends with "/" or not.
C20_FileUrlUnderListing ==
    \A r \in ProducedFiles :
        r.origin[1] \notin {SLASH, HOST} =>
            \E i \in ListedBy(r.origin) : r.url = safe_url_join(fetched[i], r.origin)

\* What a depth-first walk of the site in document order does: the pages it
\* fetches and the records it hands to its consumer, in order.  The walk is
\* told by the pages served so far; live is FALSE where it ends in an error or
\* comes to a page not served yet or to a directory below MaxDepth.
FetchEvent(u) == [kind |-> "fetch", url |-> u]
RecordEvent(r) == [kind |-> "record", rec |-> r]
IsFetch(e) == e.kind = "fetch"
IsRecord(e) == e.kind = "record"
Stopped(ev) == [ev |-> ev, live |-> FALSE]
Went(ev) == [ev |-> ev, live |-> TRUE]
RecordsOf(ev) ==
    LET recs == SelectSeq(ev, IsRecord)
    IN  [i \in 1..Len(recs) |-> recs[i].rec]
FetchesOf(ev) ==
    LET gets == SelectSeq(ev, IsFetch)
    IN  [i \in 1..Len(gets) |-> gets[i].url]

RECURSIVE WalkDirectory(_, _, _)
RECURSIVE WalkLinks(_, _, _, _, _, _)

\* The walk of the directory a link names
WalkDirectory(url, parent, depth) ==
    LET pro == Prologue(url, parent)
        u == human_repr(pro.url)
    IN  CASE pro.do = "raise" -> Stopped(<<>>)
          [] pro.do = "return" -> Went(<<>>)
          [] OTHER ->
                IF u \notin DOMAIN served THEN Stopped(<<>>)
                ELSE IF served[u].kind = "failure" THEN Stopped(<<FetchEvent(u)>>)
                ELSE LET links == WalkLinks(served[u].body, 1, pro.url, parent,
                                            pro.is_subtitle_path, depth)
                     IN  [ev |-> <<FetchEvent(u)>> \o links.ev, live |-> links.live]

\* The walk of the links of a page from position pos on: every link is done
\* with, its whole subtree included, before the next one is looked at
WalkLinks(page, pos, resolved, parent, is_subtitle_path, depth) ==
    IF pos > Len(page) THEN Went(<<>>)
    ELSE LET href == page[pos]
             below == WalkDirectory(href, human_repr(resolved), depth + 1)
             first ==
                IF RelativeToCurrent(href) THEN Went(<<>>)
                ELSE IF ~IsDir(href)
                     THEN Went(<<RecordEvent(FileRecord(resolved, href))>>)
                ELSE IF depth >= MaxDepth THEN Stopped(<<>>)
                ELSE IF ~is_subtitle_path THEN below
                ELSE IF ~below.live THEN Stopped(SelectSeq(below.ev, IsFetch))
                ELSE Went(SelectSeq(below.ev, IsFetch)
                          \o <<RecordEvent(SubtitleRecord(parent, RecordsOf(below.ev)))>>)
             rest == WalkLinks(page, pos + 1, resolved, parent, is_subtitle_path, depth)
         IN  IF first.live
             THEN [ev |-> first.ev \o rest.ev, live |-> rest.live]
             ELSE first

DocumentOrder == WalkDirectory(call.url, call.parent, 1).ev

IsPrefix(a, b) == Len(a) <= Len(b) /\ SubSeq(b, 1, Len(a)) = a

\* The number of pages the walk ev fetches before it hands over its k-th
\* record
FetchesBefore(ev, k) ==
    LET at == CHOOSE i \in 1..Len(ev) :
                  /\ IsRecord(ev[i])
                  /\ Cardinality({j \in 1..i : IsRecord(ev[j])}) = k
    IN  Cardinality({j \in 1..at : IsFetch(ev[j])})

\* The records come in document order, depth first, and the pages are fetched
\* in that order and no earlier than the record the consumer waits for needs
InDocumentOrder ==
    LET ev == DocumentOrder
        k == Len(out)
    IN  /\ IsPrefix(out, RecordsOf(ev))
        /\ IsPrefix(fetched, FetchesOf(ev))
        /\ (cstatus = "ready" /\ ~pulling) =>
              Len(fetched) = IF k = 0 THEN 0 ELSE FetchesBefore(ev, k)
        /\ k < Len(RecordsOf(ev)) => Len(fetched) <= FetchesBefore(ev, k + 1)

\* A page is fetched only while the consumer waits for a record, and the
\* record handed over ends the wait
OnlyWhenPulled ==
    /\ fetched' # fetched => pulling
    /\ out' # out => (pulling /\ ~pulling')

\* C17: the crawl is depth-first and pull-driven: the records come in document
\* order, all the records of a subdirectory before any record of a later link
\* of the page that lists it; the page of a directory link is fetched only
\* when the consumer has pulled every record before that link, so a consumer
\* with k records has caused no fetch for a link after the k-th record.
C17_DepthFirstPullDriven == []InDocumentOrder /\ [][OnlyWhenPulled]_vars

\* The consumer has two records: the file listed before a directory link, and
\* after a second fetch, a file of that directory
C17_Witness ==
    /\ cstatus = "ready"
    /\ ~pulling
    /\ Len(out) = 2
    /\ Len(fetched) = 2
    /\ Len(stack) = 2
    /\ stack[1].page = <<FileHref, DirHref>>
    /\ stack[1].pos = 2
    /\ out[2].url = UrlJoin(stack[2].resolved, out[2].origin)

----------------------------------------------------------------------------
(* send_fs_to_fzf *)

\* holder[key].append(value) on a defaultdict(list)
HolderAppend(holder, key, value) ==
    IF key \in DOMAIN holder
    THEN [holder EXCEPT ![key] = Append(@, value)]
    ELSE (key :> <<value>>) @@ holder

\* holder.get(key, default)
HolderGet(holder, key, default) ==
    IF key \in DOMAIN holder THEN holder[key] ELSE default

ORIGIN == <<"origin">>

\* Lines 146-150: subtitle_holder.get("origin", {}) is the empty dict unless a
\* subtitle record was stored under the key "origin"; then it is a list, which
\* has no .get, and the expression raises AttributeError (Raises).  Otherwise
\* the length is that of the default [] of the empty dict.
Raises == -1
has_subtitles(subtitle_holder) ==
    IF ORIGIN \in DOMAIN subtitle_holder THEN Raises ELSE Len(<<>>)

\* A variant of lines 194-200 that tests was_already_in before it appends
AppendResolutionOnce(resolution_holder, name, file) ==
    IF Has(file.attrs, "video_resolution") /\ name \notin DOMAIN resolution_holder
    THEN (name :> <<file>>) @@ resolution_holder
    ELSE resolution_holder

\* Lines 196-197
AppendResolution(resolution_holder, name, file) ==
    IF Has(file.attrs, "video_resolution")
    THEN HolderAppend(resolution_holder, name, file)
    ELSE resolution_holder

\* Lines 202-212: the label given to the picker
DisplayLabel(name, file, subtitles, path_shown) ==
    name
        \o (IF subtitles # 0 THEN <<" [subtitles]">> ELSE <<>>)
        \o (IF Has(file.attrs, "file_extension")
            THEN <<" [">> \o file.attrs.file_extension \o <<"]">>
            ELSE <<>>)
        \o (IF path_shown THEN <<" @ '">> \o file.path \o <<"'">> ELSE <<>>)

\* Lines 136-212: one turn of the loop of to_fzf_prompt, for the record file
ToFzfPrompt(a, file, path_shown) ==
    IF file.type = "subtitle"
    THEN [a EXCEPT !.subtitle_holder =
                HolderAppend(@, file.attrs.subtitle_for, file)]
    ELSE IF has_subtitles(a.subtitle_holder) = Raises
    THEN [a EXCEPT !.raised = TRUE]
    ELSE LET name == CanonicalName(file.attrs)
             named == [name |-> name] @@ file
             was_already_in == name \in DOMAIN a.resolution_holder
             holder == AppendResolution(a.resolution_holder, name, named)
         IN  IF was_already_in
             THEN [a EXCEPT !.resolution_holder = holder]
             ELSE [a EXCEPT !.resolution_holder = holder,
                            !.emitted = Append(@,
                                [label |-> DisplayLabel(name, named,
                                        has_subtitles(a.subtitle_holder),
                                        path_shown),
                                 file |-> named])]

\* Lines 224-232: the list returned for the record the picker chose
Resolutions(a, file_ref) ==
    LET found == HolderGet(a.resolution_holder, file_ref.name, <<file_ref>>)
        subtitles == HolderGet(a.subtitle_holder, file_ref.origin, <<>>)
    IN  IF subtitles # <<>>
        THEN [i \in 1..Len(found) |-> [subtitles |-> subtitles] @@ found[i]]
        ELSE found

----------------------------------------------------------------------------
(* The records genexp can deliver: what iterate_file_system builds for a file
   listed by the page of a directory, and for the subdirectory of a subtitle
   folder of a directory. *)

ListingDirs == {<<HOST, SLASH, "Show", SLASH>>, <<HOST, SLASH, "Show">>}
BundleDirs == ListingDirs \cup {<<HOST, SLASH, "origin">>}
MediaHrefs == {F1080, F720, FPlain, FPattern, FBare}

Sources ==
    [type : {"file"}, dir : ListingDirs, href : MediaHrefs]
        \cup [type : {"subtitle"}, dir : BundleDirs, href : {FSrt}]

\* The record of a source; id tells apart the dict objects of the stream
RecordOf(src, id) ==
    IF src.type = "file"
    THEN [id |-> id] @@ FileRecord(src.dir, src.href)
    ELSE [id |-> id] @@
         SubtitleRecord(src.dir,
            <<FileRecord(safe_url_join(src.dir, <<"Subs", SLASH, "en", SLASH>>),
                         src.href)>>)

\* The next record of genexp reaches the loop of to_fzf_prompt
Consume ==
    /\ phase = "streaming"
    /\ Len(consumed) < MaxStream
    /\ \E src \in Sources :
          LET rec == RecordOf(src, Len(consumed) + 1)
              next == ToFzfPrompt(agg, rec, show_path)
          IN  /\ ~next.raised
              /\ consumed' = Append(consumed, [src |-> src, rec |-> rec])
              /\ agg' = next
    /\ UNCHANGED <<crawlVars, nameVars, show_path, phase, picked, resolutions>>

\* The turn of the loop raises: the exception leaves fzf_prompt and
\* send_fs_to_fzf
ConsumeRaises ==
    /\ phase = "streaming"
    /\ Len(consumed) < MaxStream
    /\ \E src \in Sources :
          LET rec == RecordOf(src, Len(consumed) + 1)
              next == ToFzfPrompt(agg, rec, show_path)
          IN  /\ next.raised
              /\ consumed' = Append(consumed, [src |-> src, rec |-> rec])
              /\ agg' = next
    /\ phase' = "AttributeError"
    /\ UNCHANGED <<crawlVars, nameVars, show_path, picked, resolutions>>

\* genexp is exhausted
Drain ==
    /\ phase = "streaming"
    /\ phase' = "drained"
    /\ UNCHANGED <<crawlVars, nameVars, show_path, consumed, agg, picked, resolutions>>

\* Lines 214-232: the picker returns one of the entries it was given, and the
\* selection is resolved
Select ==
    /\ phase = "drained"
    /\ \E i \in 1..Len(agg.emitted) :
          /\ picked' = <<agg.emitted[i].file>>
          /\ resolutions' = Resolutions(agg, agg.emitted[i].file)
    /\ phase' = "returned"
    /\ UNCHANGED <<crawlVars, nameVars, show_path, consumed, agg>>

AggInit ==
    /\ show_path \in BOOLEAN
    /\ consumed = <<>>
    /\ agg = NewAggregator
    /\ phase = "streaming"
    /\ picked = <<>>
    /\ resolutions = <<>>
    /\ call = [url |-> <<HOST, SLASH, "Show", SLASH>>, parent |-> None]
    /\ stack = <<>>
    /\ served = <<>>
    /\ fetched = <<>>
    /\ out = <<>>
    /\ pulling = FALSE
    /\ cstatus = "ready"
    /\ NameIdle

AggNext ==
    \/ Consume
    \/ ConsumeRaises
    \/ Drain
    \/ Select

SpecAgg == AggInit /\ [][AggNext]_vars

----------------------------------------------------------------------------
(* Properties of the aggregator *)

FileIdx == {i \in 1..Len(consumed) : consumed[i].rec.type = "file"}
SubtitleIdx == {i \in 1..Len(consumed) : consumed[i].rec.type = "subtitle"}
NameOf(i) == CanonicalName(consumed[i].rec.attrs)
Names == {NameOf(i) : i \in FileIdx}

\* The consumed record i as the loop leaves it: file["name"] is set
Named(i) == [name |-> NameOf(i)] @@ consumed[i].rec

EmittedIds(a, among) ==
    {a.emitted[j].file.id : j \in 1..Len(a.emitted)} \cap among

\* The consumed file records with name k, and those of them that carry a
\* video_resolution
WithName(k) == {i \in FileIdx : NameOf(i) = k}
WithResolution(k) ==
    {i \in WithName(k) : Has(consumed[i].rec.attrs, "video_resolution")}

Min(S) == CHOOSE i \in S : \A j \in S : i <= j

\* seq lists the records of the indices S, each once, in the order of arrival
InArrivalOrder(seq, S) ==
    /\ Len(seq) = Cardinality(S)
    /\ \A j \in 1..Len(seq) : seq[j].id \in S /\ seq[j] = Named(seq[j].id)
    /\ \A i, j \in 1..Len(seq) : i < j => seq[i].id < seq[j].id

\* Two directory URLs that differ at most by the final "/"
SameDirectory(a, b) == RemoveSuffixSlash(a) = RemoveSuffixSlash(b)

\* C1: no two entries given to the picker have the same canonical key,
\* whether or not the records carry a resolution.
C1_OneEmissionPerKey ==
    \A i, j \in 1..Len(agg.emitted) :
        i # j => agg.emitted[i].file.name # agg.emitted[j].file.name

C3_SubtitlesAttached ==
    phase = "returned" =>
        \A i \in SubtitleIdx :
            SameDirectory(consumed[i].src.dir, consumed[picked[1].id].src.dir) =>
                \A j \in 1..Len(resolutions) :
                    /\ "subtitles" \in DOMAIN resolutions[j]
                    /\ FilesOf(consumed[i].rec.attrs.subtitles)
                            \subseteq FilesOf(resolutions[j].subtitles)

HasMarker(label) == \E j \in 1..Len(label) : label[j] = " [subtitles]"

\* C4: the label of an emitted record has the " [subtitles]" marker exactly
\* when a subtitle record for the directory of the record was consumed before.
C4_SubtitleMarker ==
    \A e \in 1..Len(agg.emitted) :
        LET id == agg.emitted[e].file.id
        IN  HasMarker(agg.emitted[e].label) <=>
                \E i \in SubtitleIdx :
                    /\ i < id
                    /\ SameDirectory(consumed[i].src.dir, consumed[id].src.dir)

RECURSIVE Aggregate(_, _, _)
\* to_fzf_prompt run over a whole stream of records, from the state a
Aggregate(a, records, path_shown) ==
    IF records = <<>> THEN a
    ELSE Aggregate(ToFzfPrompt(a, Head(records), path_shown), Tail(records),
                   path_shown)

EmittedOf(a, k) == {j \in 1..Len(a.emitted) : a.emitted[j].file.name = k}
VariantsOf(a, k) ==
    LET v == HolderGet(a.resolution_holder, k, <<>>)
    IN  {v[j].id : j \in 1..Len(v)}

\* C9: every other order of the consumed file records gives, for each key, as
\* many emitted entries and the same set of variants.
C9_OrderIndependent ==
    (FileIdx = 1..Len(consumed)) =>
        \A p \in Permutations(1..Len(consumed)) :
            LET other == Aggregate(NewAggregator,
                                   [i \in 1..Len(consumed) |-> consumed[p[i]].rec],
                                   show_path)
            IN  \A k \in Names :
                    /\ Cardinality(EmittedOf(other, k)) = Cardinality(EmittedOf(agg, k))
                    /\ VariantsOf(other, k) = VariantsOf(agg, k)

\* C10: the returned list is not empty and holds the record the picker
\* returned.
C10_ContainsChosen ==
    phase = "returned" =>
        /\ resolutions # <<>>
        /\ \E j \in 1..Len(resolutions) : resolutions[j].id = picked[1].id

----------------------------------------------------------------------------
(* Naming: lines 152-192 and get_pseudo_float_string on inputs of their own *)

\* What anitopy can report of a file: the title or, without one, the file
\* name, with or without an episode number and a season
TitleSet ==
    { None, <<"Show">>, <<"Show", " ", "S01E02">>,
      <<"Show", ".", "1x02", ".", "Extra">>, <<"S01E02", " ", "Show">> }
FileNameSet == { <<"Show", ".", "01">>, <<"Show", "%20", "S01E02">> }
EpisodeSet == { None, <<"00">>, <<"01">>, <<"5.5">> }
SeasonSet == { None, <<"1">>, <<"02">> }

NameInputs ==
    { Attributes(f, t, e, n, None, None) :
        f \in FileNameSet, t \in TitleSet, e \in EpisodeSet, n \in SeasonSet }

\* Lines 152-192 run on the file
SetName ==
    /\ name_out = <<>>
    /\ name_out' = <<CanonicalName(attributes_in)>>
    /\ UNCHANGED <<crawlVars, aggVars, attributes_in, number_in, text_out>>

\* Lines 65-66 run on the float
RenderNumber ==
    /\ text_out = <<>>
    /\ text_out' = <<get_pseudo_float_string(number_in)>>
    /\ UNCHANGED <<crawlVars, aggVars, attributes_in, name_out, number_in>>

NameInit ==
    /\ attributes_in \in NameInputs
    /\ name_out = <<>>
    /\ number_in \in 0..MaxHalves
    /\ text_out = <<>>
    /\ call = [url |-> <<HOST, SLASH, "Show", SLASH>>, parent |-> None]
    /\ stack = <<>>
    /\ served = <<>>
    /\ fetched = <<>>
    /\ out = <<>>
    /\ pulling = FALSE
    /\ cstatus = "ready"
    /\ AggIdle

NameNext ==
    \/ SetName
    \/ RenderNumber

SpecName == NameInit /\ [][NameNext]_vars

----------------------------------------------------------------------------
(* Properties of the naming code *)

\* The whole numbers a number of halves lies next to: itself when it is
\* whole, the two around it when it is not
Nearest(h) == {n \in 0..h : 2 * n - h \in {-1, 0, 1}}

\* n in decimal digits, with a zero before a single digit
TwoDigits(n) == IF n \in 0..9 THEN "0" \o ToString(n) ELSE ToString(n)

Range(s) == {s[i] : i \in 1..Len(s)}

\* The raw name of the file that is being named, and where SEASON_LISTING
\* matches in it
RawName ==
    unquote(IF Has(attributes_in, "anime_title")
            THEN attributes_in.anime_title ELSE attributes_in.file_name)
PatternHits == {i \in 1..Len(RawName) : ListingAt(RawName, i)}

\* The number of spans of s that read as a season/episode pattern
ListingCount(s) == Cardinality({i \in 1..Len(s) : s[i] \in SeasonListings})

\* C15: when the raw name contains a season/episode pattern, the matched span
\* is removed from the canonical title, whatever the external attributes
\* supply: an episode, a season, both or none
C15_PatternRemoved ==
    (name_out # <<>> /\ PatternHits # {}) =>
        ListingCount(name_out[1]) = ListingCount(RawName) - Cardinality(PatternHits)

\* The season and the episode that are known: the external value, else the
\* one of the first pattern match, else none
KnownSeason ==
    IF Has(attributes_in, "anime_season") THEN <<attributes_in.anime_season>>
    ELSE IF PatternHits # {} THEN <<SeasonGroup(RawName[Min(PatternHits)])>>
    ELSE <<>>
KnownEpisode ==
    IF Has(attributes_in, "episode_number") THEN <<attributes_in.episode_number>>
    ELSE IF PatternHits # {} THEN <<EpisodeGroup(RawName[Min(PatternHits)])>>
    ELSE <<>>

\* A known number in two digits
Shown(known) == get_pseudo_float_string(HalvesOf(known[1]))

\* C16: the name ends with the suffix of what is known: "EE" for an episode
\* alone, "SSx0?" for a season alone, "SSxEE" for both, and no suffix (the
\* title alone) when neither is known, whether a value comes from the
\* pattern or from the external attributes
C16_SuffixComposition ==
    name_out # <<>> =>
        LET name == name_out[1]
            title == SubSeq(name, 1, Len(name) - 2)
            suffixed == /\ Len(name) >= 1
                        /\ Len(name) >= 2 => name[Len(name) - 1] = " "
                        /\ \A i \in 1..Len(title) : title[i] \in Range(RawName) \cup {" "}
        IN  CASE KnownSeason = <<>> /\ KnownEpisode = <<>> ->
                    \A i \in 1..Len(name) : name[i] \in Range(RawName) \cup {" "}
              [] KnownSeason = <<>> /\ KnownEpisode # <<>> ->
                    suffixed /\ Last(name) = Shown(KnownEpisode)
              [] KnownSeason # <<>> /\ KnownEpisode = <<>> ->
                    suffixed /\ Last(name) = Shown(KnownSeason) \o "x0?"
              [] OTHER ->
                    suffixed /\ Last(name) = Shown(KnownSeason) \o "x" \o Shown(KnownEpisode)

\* A name with the season of its pattern and an external episode
C16_Witness ==
    /\ name_out # <<>>
    /\ PatternHits # {}
    /\ Has(attributes_in, "episode_number")
    /\ ~Has(attributes_in, "anime_season")

====
